---- MODULE Spec2Model ----
(***************************************************************************)
(* existance: the plan / action / rollback machinery of                    *)
(* src/existance/__init__.py (PlanExecutor, the shipped plans, main) and   *)
(* the actions of src/existance/actions.py acting on one host.             *)
(***************************************************************************)
EXTENDS FiniteSets, Integers, Sequences, TLC

(***************************************************************************)
(* Bounds of the model.                                                    *)
(***************************************************************************)
\* longest plan drawn over PlanAlphabet (plans other than the shipped ones)
MaxPlanLen == 3
\* number of instance ids the registry file may hold before the run
MaxInstances == 1
\* number of times per run the environment may disturb a call that is not the
\* one ending the forward pass: a fault raised inside undo(), an external
\* command that exits with a status other than 0, or a Ctrl-C between two calls
MaxDisturbances == 2
\* number of values one validation step may read from the prompt
MaxPrompts == 3

(***************************************************************************)
(* Values.                                                                 *)
(***************************************************************************)
\* Python's None for an argument that was not given (ids and names are >= 0)
None == -1
INSTANCE_PORT_RANGE_START == 8000

\* ids the registry may hold before a run
RegIds == INSTANCE_PORT_RANGE_START .. (INSTANCE_PORT_RANGE_START + MaxInstances - 1)
\* the id one above the ids the registry may hold before a run
NewId == INSTANCE_PORT_RANGE_START + MaxInstances
IdSpace == RegIds \cup {NewId}
\* a name is a token: before the run the instance n is registered under the name
\* n, and NewName is a name matching the pattern that no instance uses
NewName == NewId
Names == IdSpace
\* version strings: the one GitHub reports, one the user may give, and one that
\* is_semantical_version rejects; "None" stands for a version that was not given
Versions == {"5.0.0", "4.7.1"}
is_semantical_version(v) == v \in Versions

\* what is at a path: nothing, what was there before the run, what the run wrote
Contents == {"none", "old", "new"}

\* how a call ends: it returns, or raises Exception, or raises KeyboardInterrupt
Outcomes == {"ok", "Exception", "KeyboardInterrupt"}
Faults == {"Exception", "KeyboardInterrupt"}

(***************************************************************************)
(* The action classes of actions.py.                                       *)
(***************************************************************************)
EphemeralAction ==
    {"AddBackupTask", "CalculateTargetPaths", "ConfigureSerialization",
     "CopyDatasnapshot", "DownloadInstaller", "DumpTemplate", "GetInstanceName",
     "GetLatestExistVersion", "InstallerPrologue", "LoadRetainedConfigs",
     "ReadInstancesSettings", "ReloadNginx", "RemoveUnwantedJettyConfig",
     "SaveRetainedConfigs", "SelectInstanceID", "SetDesignatedExistDBVersion",
     "SetDesignatedInstanceID", "SetDesignatedInstanceName",
     "SetDesignatedXmXValue", "SetFilePermissions", "SetJettyWebappContext"}

Action ==
    {"AddProxyMapping", "CreateBackupDirectory", "EnableSystemdUnit",
     "MakeDataDir", "MakeInstanceDirectory", "MakeSnapshot", "RunExistInstaller",
     "SetupLoggingAggregation", "StartSystemdUnit", "WriteInstanceSettings"}

\* a plan entry: a class of actions.py, or counter(class)
cls(name) == [cls |-> name, counter |-> FALSE]
counter(name) == [cls |-> name, counter |-> TRUE]

\* isinstance(action, actions.EphemeralAction): CounterAction derives from Action
IsEphemeral_NoCheck(a) == FALSE
IsEphemeral(a) == ~a.counter /\ a.cls \in EphemeralAction

(***************************************************************************)
(* The shipped plans.                                                      *)
(***************************************************************************)
make_install_plan ==
    << cls("GetLatestExistVersion"),
       cls("ReadInstancesSettings"), cls("SetDesignatedInstanceID"),
       cls("SetDesignatedInstanceName"), cls("SetDesignatedExistDBVersion"),
       cls("CalculateTargetPaths"),
       cls("DownloadInstaller"), cls("MakeInstanceDirectory"), cls("MakeDataDir"),
       cls("InstallerPrologue"), cls("RunExistInstaller"),
       cls("CreateBackupDirectory"), cls("SetFilePermissions"),
       cls("SetJettyWebappContext"), cls("AddBackupTask"),
       cls("ConfigureSerialization"), cls("AddProxyMapping"),
       cls("SetupLoggingAggregation"), cls("WriteInstanceSettings"),
       cls("EnableSystemdUnit"), cls("StartSystemdUnit"), cls("ReloadNginx") >>

make_uninstall_plan ==
    << cls("ReadInstancesSettings"), cls("SelectInstanceID"),
       cls("GetInstanceName"), cls("CalculateTargetPaths"),
       counter("StartSystemdUnit"), counter("EnableSystemdUnit"),
       counter("WriteInstanceSettings"), counter("AddProxyMapping"),
       cls("ReloadNginx"), counter("MakeInstanceDirectory"),
       counter("SetupLoggingAggregation") >>

make_upgrade_plan ==
    << cls("GetLatestExistVersion"),
       cls("ReadInstancesSettings"), cls("SelectInstanceID"),
       cls("GetInstanceName"), cls("SetDesignatedExistDBVersion"),
       cls("CalculateTargetPaths"),
       counter("StartSystemdUnit"), cls("LoadRetainedConfigs"), cls("MakeSnapshot"),
       cls("DownloadInstaller"), cls("MakeDataDir"), cls("InstallerPrologue"),
       cls("RunExistInstaller"),
       cls("SaveRetainedConfigs"), cls("RemoveUnwantedJettyConfig"),
       counter("MakeDataDir"), cls("CopyDatasnapshot"),
       cls("SetFilePermissions"), cls("StartSystemdUnit") >>

plan_factory(command) ==
    CASE command = "install" -> make_install_plan
      [] command = "uninstall" -> make_uninstall_plan
      [] command = "upgrade" -> make_upgrade_plan

Commands == {"install", "uninstall", "upgrade"}

(***************************************************************************)
(* The state an action works on: st = [host, context, args].               *)
(*   host    the paths and units of the designated instance, the registry  *)
(*           file (args.instances_settings) and the installer cache        *)
(*   context PlanExecutor.context: the attributes set so far, and the      *)
(*           value of context.instances_settings (id -> name)              *)
(*   args    the argparse namespace: id, name, version                     *)
(***************************************************************************)
Ok(st) == [outcome |-> "ok", st |-> st]
Raise(st) == [outcome |-> "Exception", st |-> st]

\* reading self.context.<key> for each key of ks raises AttributeError when unset
HasKeys(st, ks) == ks \subseteq st.context.keys
SetKeys(st, ks) == [st EXCEPT !.context.keys = @ \cup ks]

Put(d, k, v) == [x \in (DOMAIN d) \cup {k} |-> IF x = k THEN v ELSE d[x]]
Pop(d, k) == [x \in (DOMAIN d) \ {k} |-> d[x]]

\* shutil.rmtree(instance_dir) takes everything below it along
RmInstanceDir(h) ==
    [h EXCEPT !.instance_dir = "none", !.installation_dir = "none",
              !.data_dir = "none", !.backup_dir = "none",
              !.installation_snapshot = "none", !.data_snapshot = "none"]

\* actions.external_command: subprocess.run(args, **kwargs) is called with the
\* caller's kwargs, not with run_kwargs, so check=True is not in effect and the
\* command's exit status raises nothing
external_command(exit_ok) == "ok"

\* ---- Ephemeral actions ----

Do_GetLatestExistVersion(st) == Ok(SetKeys(st, {"latest_existdb_version"}))

Do_ReadInstancesSettings(st) ==
    Ok([SetKeys(st, {"instances_settings"})
          EXCEPT !.context.instances_settings = st.host.registry])

proposed_id(settings) ==
    IF DOMAIN settings # {}
    THEN (CHOOSE m \in DOMAIN settings : \A x \in DOMAIN settings : x <= m) + 1
    ELSE INSTANCE_PORT_RANGE_START

\* the prompt loop, by the last value typed (earlier values that are ids in use
\* only store the id and prompt again): inp.text is "" for an empty line,
\* "digits" for the decimal inp.num, anything else for text int() rejects
Do_SetDesignatedInstanceID(st, inp) ==
    LET settings == st.context.instances_settings IN
    IF ~HasKeys(st, {"instances_settings"}) THEN Raise(st)
    ELSE IF st.args.id # None /\ st.args.id \notin DOMAIN settings THEN Ok(st)
    ELSE IF inp.text = "" THEN Ok([st EXCEPT !.args.id = proposed_id(settings)])
    ELSE IF inp.text = "digits" /\ inp.num \notin DOMAIN settings
         THEN Ok([st EXCEPT !.args.id = inp.num])
    ELSE IF inp.text = "digits" THEN Raise([st EXCEPT !.args.id = inp.num])
    ELSE Raise(st)

used_names(settings) == {settings[x] : x \in DOMAIN settings}

\* the prompt loop, by the last value typed; a value that is in use or does not
\* match prompts again, and the end of the input raises EOFError
Do_SetDesignatedInstanceName(st, inp) ==
    LET used == used_names(st.context.instances_settings) IN
    IF ~HasKeys(st, {"instances_settings"}) THEN Raise(st)
    ELSE IF st.args.name # None /\ st.args.name \notin used THEN Ok(st)
    ELSE IF inp.text = "name" /\ inp.num \notin used
         THEN Ok([st EXCEPT !.args.name = inp.num])
    ELSE Raise(st)

Do_SetDesignatedExistDBVersion(st, inp) ==
    IF ~HasKeys(st, {"latest_existdb_version"}) THEN Raise(st)
    ELSE IF st.args.version # "None" /\ is_semantical_version(st.args.version)
         THEN Ok(st)
    ELSE IF inp.text = "" THEN Ok([st EXCEPT !.args.version = "5.0.0"])
    ELSE IF is_semantical_version(inp.text)
         THEN Ok([st EXCEPT !.args.version = inp.text])
    ELSE Raise(st)

Do_SelectInstanceID(st, inp) ==
    LET settings == st.context.instances_settings IN
    IF ~HasKeys(st, {"instances_settings"}) THEN Raise(st)
    ELSE IF st.args.id # None /\ st.args.id \in DOMAIN settings THEN Ok(st)
    ELSE IF inp.text = "digits" /\ inp.num \in DOMAIN settings
         THEN Ok([st EXCEPT !.args.id = inp.num])
    ELSE Raise(st)

Do_GetInstanceName(st) ==
    IF ~HasKeys(st, {"instances_settings"}) THEN Raise(st)
    ELSE IF st.args.id \notin DOMAIN st.context.instances_settings THEN Raise(st)
    ELSE Ok([st EXCEPT !.args.name = st.context.instances_settings[st.args.id]])

Do_CalculateTargetPaths_NoDataDir(st) ==
    Ok(SetKeys(st, {"instance_dir", "installation_dir", "backup_dir",
                    "existdb_config", "controller_config", "jetty_config"}))
Do_CalculateTargetPaths(st) ==
    Ok(SetKeys(st, {"instance_dir", "installation_dir", "backup_dir", "data_dir",
                    "existdb_config", "controller_config", "jetty_config"}))

Do_DownloadInstaller(st) ==
    Ok([SetKeys(st, {"installer_location"}) EXCEPT !.host.installer = TRUE])

Do_InstallerPrologue(st) ==
    IF HasKeys(st, {"installation_dir", "data_dir"}) THEN Ok(st) ELSE Raise(st)

Do_SetFilePermissions(st) ==
    IF HasKeys(st, {"instance_dir", "installation_dir", "backup_dir", "data_dir"})
    THEN Ok(st) ELSE Raise(st)

\* ElementTree.parse of a file below the installation folder, an edit, tree.write
EditConfig(st, key) ==
    IF ~HasKeys(st, {key}) THEN Raise(st)
    ELSE IF st.host.installation_dir = "none" THEN Raise(st)
    ELSE Ok([st EXCEPT !.host.installation_dir = "new"])

Do_SetJettyWebappContext(st) == EditConfig(st, "jetty_config")

\* self.args.id - INSTANCE_PORT_RANGE_START is a TypeError for an id of None
Do_AddBackupTask(st) ==
    IF st.args.id = None THEN Raise(st) ELSE EditConfig(st, "existdb_config")

Do_ConfigureSerialization(st) == EditConfig(st, "existdb_config")

Do_ReloadNginx(st) == Ok(st)

Do_LoadRetainedConfigs(st) ==
    IF ~HasKeys(st, {"existdb_config", "controller_config", "jetty_config"})
    THEN Raise(st)
    ELSE IF st.host.installation_dir = "none" THEN Raise(st)
    ELSE Ok(SetKeys(st, {"retained_configs"}))

Do_SaveRetainedConfigs(st) == EditConfig(st, "retained_configs")

Do_RemoveUnwantedJettyConfig(st) ==
    IF HasKeys(st, {"installation_dir"}) THEN Ok(st) ELSE Raise(st)

Do_CopyDatasnapshot(st) ==
    IF ~HasKeys(st, {"data_snapshot", "data_dir"}) THEN Raise(st)
    ELSE IF st.host.data_snapshot = "none" \/ st.host.data_dir # "none" THEN Raise(st)
    ELSE Ok([st EXCEPT !.host.data_dir = st.host.data_snapshot])

\* ---- Actions (do and undo); ext_ok: the external command exits with status 0 ----

Do_MakeInstanceDirectory(st) ==
    IF ~HasKeys(st, {"instance_dir"}) THEN Raise(st)
    ELSE IF st.host.instance_dir # "none" THEN Raise(st)
    ELSE Ok([st EXCEPT !.host.instance_dir = "new"])

Undo_MakeInstanceDirectory(st) ==
    IF ~HasKeys(st, {"instance_dir"}) THEN Raise(st)
    ELSE IF st.host.instance_dir = "none" THEN Raise(st)
    ELSE Ok([st EXCEPT !.host = RmInstanceDir(@)])

Do_MakeDataDir(st) ==
    IF ~HasKeys(st, {"data_dir"}) THEN Raise(st)
    ELSE IF st.host.data_dir # "none" THEN Ok(st)
    ELSE Ok([st EXCEPT !.host.data_dir = "new",
                       !.host.instance_dir = IF @ = "none" THEN "new" ELSE @])

Undo_MakeDataDir(st) ==
    IF ~HasKeys(st, {"data_dir"}) THEN Raise(st)
    ELSE IF st.host.data_dir = "none" THEN Raise(st)
    ELSE Ok([st EXCEPT !.host.data_dir = "none"])

\* the installer writes the installation folder when it exits with status 0
Do_RunExistInstaller(st, ext_ok) ==
    IF ~HasKeys(st, {"installer_location"}) THEN Raise(st)
    ELSE IF external_command(ext_ok) # "ok" THEN Raise(st)
    ELSE IF ext_ok
         THEN Ok([st EXCEPT !.host.installation_dir = "new",
                            !.host.instance_dir = IF @ = "none" THEN "new" ELSE @])
    ELSE Ok(st)

\* shutil.rmtree(installation_dir, ignore_errors=True)
Undo_RunExistInstaller(st) ==
    IF ~HasKeys(st, {"installation_dir"}) THEN Raise(st)
    ELSE Ok([st EXCEPT !.host.installation_dir = "none"])

Do_CreateBackupDirectory(st) ==
    IF ~HasKeys(st, {"backup_dir"}) THEN Raise(st)
    ELSE IF st.host.backup_dir # "none" \/ st.host.instance_dir = "none" THEN Raise(st)
    ELSE Ok([st EXCEPT !.host.backup_dir = "new"])

Undo_CreateBackupDirectory(st) ==
    IF ~HasKeys(st, {"backup_dir"}) THEN Raise(st)
    ELSE IF st.host.backup_dir = "none" THEN Raise(st)
    ELSE Ok([st EXCEPT !.host.backup_dir = "none"])

\* snippet.replace('<instance_name>', self.args.name) is a TypeError for a name
\* of None; open('wt') creates or truncates the mapping file
Do_AddProxyMapping(st, ext_ok) ==
    IF st.args.name = None THEN Raise(st)
    ELSE IF external_command(ext_ok) # "ok"
         THEN Raise([st EXCEPT !.host.mapping = "new"])
    ELSE Ok([st EXCEPT !.host.mapping = "new"])

Undo_AddProxyMapping(st) ==
    IF st.host.mapping = "none" THEN Raise(st)
    ELSE Ok([st EXCEPT !.host.mapping = "none"])

\* mkdir, chown, then the two symlinks, which read context.installation_dir
Do_SetupLoggingAggregation(st, ext_ok) ==
    IF st.host.log_dir # "none" THEN Raise(st)
    ELSE IF external_command(ext_ok) # "ok" \/ ~HasKeys(st, {"installation_dir"})
         THEN Raise([st EXCEPT !.host.log_dir = "new"])
    ELSE Ok([st EXCEPT !.host.log_dir = "new"])

Undo_SetupLoggingAggregation(st) ==
    IF st.host.log_dir = "none" THEN Raise(st)
    ELSE Ok([st EXCEPT !.host.log_dir = "none"])

\* _write: the registry file becomes context.instances_settings
Do_WriteInstanceSettings(st) ==
    IF ~HasKeys(st, {"instances_settings"}) THEN Raise(st)
    ELSE LET d == Put(st.context.instances_settings, st.args.id, st.args.name)
         IN Ok([st EXCEPT !.context.instances_settings = d, !.host.registry = d])

Undo_WriteInstanceSettings(st) ==
    IF ~HasKeys(st, {"instances_settings"}) THEN Raise(st)
    ELSE IF st.args.id \in DOMAIN st.context.instances_settings
         THEN LET d == Pop(st.context.instances_settings, st.args.id)
              IN Ok([st EXCEPT !.context.instances_settings = d, !.host.registry = d])
    ELSE Ok(st)

Do_EnableSystemdUnit(st, ext_ok) ==
    IF external_command(ext_ok) # "ok" THEN Raise(st)
    ELSE Ok([st EXCEPT !.host.enabled = IF ext_ok THEN TRUE ELSE @])

Undo_EnableSystemdUnit(st, ext_ok) ==
    IF external_command(ext_ok) # "ok" THEN Raise(st)
    ELSE Ok([st EXCEPT !.host.enabled = IF ext_ok THEN FALSE ELSE @])

Do_StartSystemdUnit(st, ext_ok) ==
    IF external_command(ext_ok) # "ok" THEN Raise(st)
    ELSE Ok([st EXCEPT !.host.started = IF ext_ok THEN TRUE ELSE @])

Undo_StartSystemdUnit(st, ext_ok) ==
    IF external_command(ext_ok) # "ok" THEN Raise(st)
    ELSE Ok([st EXCEPT !.host.started = IF ext_ok THEN FALSE ELSE @])

\* rename the installation folder to its snapshot, then copy the data folder
Do_MakeSnapshot(st) ==
    IF ~HasKeys(st, {"data_dir", "installation_dir"}) THEN Raise(st)
    ELSE LET s1 == SetKeys(st, {"data_snapshot", "installation_snapshot"}) IN
         IF s1.host.installation_dir = "none" \/ s1.host.installation_snapshot # "none"
         THEN Raise(s1)
         ELSE LET s2 == [s1 EXCEPT
                           !.host.installation_snapshot = s1.host.installation_dir,
                           !.host.installation_dir = "none"] IN
              IF s2.host.data_dir = "none" \/ s2.host.data_snapshot # "none"
              THEN Raise(s2)
              ELSE Ok([s2 EXCEPT !.host.data_snapshot = s2.host.data_dir])

\* rename the snapshot back, remove the data folder, rename the data snapshot
Undo_MakeSnapshot(st) ==
    IF ~HasKeys(st, {"installation_dir", "data_dir", "installation_snapshot"})
    THEN Raise(st)
    ELSE IF st.host.installation_snapshot = "none" \/ st.host.installation_dir # "none"
         THEN Raise(st)
    ELSE LET s1 == [st EXCEPT
                      !.host.installation_dir = st.host.installation_snapshot,
                      !.host.installation_snapshot = "none"] IN
         IF s1.host.data_dir = "none" THEN Raise(s1)
         ELSE LET s2 == [s1 EXCEPT !.host.data_dir = "none"] IN
              IF ~HasKeys(s2, {"data_snapshot"}) \/ s2.host.data_snapshot = "none"
              THEN Raise(s2)
              ELSE Ok([s2 EXCEPT !.host.data_dir = s2.host.data_snapshot,
                                 !.host.data_snapshot = "none"])

\* action.undo() of an instance of class c
UndoOf(c, st, ext_ok) ==
    CASE c = "MakeInstanceDirectory" -> Undo_MakeInstanceDirectory(st)
      [] c = "MakeDataDir" -> Undo_MakeDataDir(st)
      [] c = "RunExistInstaller" -> Undo_RunExistInstaller(st)
      [] c = "CreateBackupDirectory" -> Undo_CreateBackupDirectory(st)
      [] c = "AddProxyMapping" -> Undo_AddProxyMapping(st)
      [] c = "SetupLoggingAggregation" -> Undo_SetupLoggingAggregation(st)
      [] c = "WriteInstanceSettings" -> Undo_WriteInstanceSettings(st)
      [] c = "EnableSystemdUnit" -> Undo_EnableSystemdUnit(st, ext_ok)
      [] c = "StartSystemdUnit" -> Undo_StartSystemdUnit(st, ext_ok)
      [] c = "MakeSnapshot" -> Undo_MakeSnapshot(st)
      [] OTHER -> Raise(st)  \* an EphemeralAction has no attribute undo

\* action.do() of an instance of class c
DoOf(c, st, inp, ext_ok) ==
    CASE c = "GetLatestExistVersion" -> Do_GetLatestExistVersion(st)
      [] c = "ReadInstancesSettings" -> Do_ReadInstancesSettings(st)
      [] c = "SetDesignatedInstanceID" -> Do_SetDesignatedInstanceID(st, inp)
      [] c = "SetDesignatedInstanceName" -> Do_SetDesignatedInstanceName(st, inp)
      [] c = "SetDesignatedExistDBVersion" -> Do_SetDesignatedExistDBVersion(st, inp)
      [] c = "SelectInstanceID" -> Do_SelectInstanceID(st, inp)
      [] c = "GetInstanceName" -> Do_GetInstanceName(st)
      [] c = "CalculateTargetPaths" -> Do_CalculateTargetPaths(st)
      [] c = "DownloadInstaller" -> Do_DownloadInstaller(st)
      [] c = "InstallerPrologue" -> Do_InstallerPrologue(st)
      [] c = "SetFilePermissions" -> Do_SetFilePermissions(st)
      [] c = "SetJettyWebappContext" -> Do_SetJettyWebappContext(st)
      [] c = "AddBackupTask" -> Do_AddBackupTask(st)
      [] c = "ConfigureSerialization" -> Do_ConfigureSerialization(st)
      [] c = "ReloadNginx" -> Do_ReloadNginx(st)
      [] c = "LoadRetainedConfigs" -> Do_LoadRetainedConfigs(st)
      [] c = "SaveRetainedConfigs" -> Do_SaveRetainedConfigs(st)
      [] c = "RemoveUnwantedJettyConfig" -> Do_RemoveUnwantedJettyConfig(st)
      [] c = "CopyDatasnapshot" -> Do_CopyDatasnapshot(st)
      [] c = "MakeInstanceDirectory" -> Do_MakeInstanceDirectory(st)
      [] c = "MakeDataDir" -> Do_MakeDataDir(st)
      [] c = "RunExistInstaller" -> Do_RunExistInstaller(st, ext_ok)
      [] c = "CreateBackupDirectory" -> Do_CreateBackupDirectory(st)
      [] c = "AddProxyMapping" -> Do_AddProxyMapping(st, ext_ok)
      [] c = "SetupLoggingAggregation" -> Do_SetupLoggingAggregation(st, ext_ok)
      [] c = "WriteInstanceSettings" -> Do_WriteInstanceSettings(st)
      [] c = "EnableSystemdUnit" -> Do_EnableSystemdUnit(st, ext_ok)
      [] c = "StartSystemdUnit" -> Do_StartSystemdUnit(st, ext_ok)
      [] c = "MakeSnapshot" -> Do_MakeSnapshot(st)

\* the attributes of self.context that do() of class c reads before it sets them
DoReads(c) ==
    CASE c \in {"AddBackupTask", "ConfigureSerialization"} -> {"existdb_config"}
      [] c = "CopyDatasnapshot" -> {"data_snapshot", "data_dir"}
      [] c = "CreateBackupDirectory" -> {"backup_dir"}
      [] c \in {"GetInstanceName", "SelectInstanceID", "SetDesignatedInstanceID",
                "SetDesignatedInstanceName", "WriteInstanceSettings"} ->
            {"instances_settings"}
      [] c = "SetDesignatedExistDBVersion" -> {"latest_existdb_version"}
      [] c \in {"InstallerPrologue", "MakeSnapshot"} -> {"installation_dir", "data_dir"}
      [] c = "LoadRetainedConfigs" ->
            {"existdb_config", "controller_config", "jetty_config"}
      [] c = "MakeDataDir" -> {"data_dir"}
      [] c = "MakeInstanceDirectory" -> {"instance_dir"}
      [] c \in {"RemoveUnwantedJettyConfig", "SetupLoggingAggregation"} ->
            {"installation_dir"}
      [] c = "RunExistInstaller" -> {"installer_location"}
      [] c = "SaveRetainedConfigs" -> {"retained_configs"}
      [] c = "SetFilePermissions" ->
            {"instance_dir", "installation_dir", "backup_dir", "data_dir"}
      [] c = "SetJettyWebappContext" -> {"jetty_config"}
      [] OTHER -> {}

\* the attributes of self.context that undo() of class c reads
UndoReads(c) ==
    CASE c = "CreateBackupDirectory" -> {"backup_dir"}
      [] c = "MakeDataDir" -> {"data_dir"}
      [] c = "MakeInstanceDirectory" -> {"instance_dir"}
      [] c = "MakeSnapshot" ->
            {"installation_dir", "data_dir", "installation_snapshot", "data_snapshot"}
      [] c = "RunExistInstaller" -> {"installation_dir"}
      [] c = "WriteInstanceSettings" -> {"instances_settings"}
      [] OTHER -> {}

\* what the constructor and do() of plan entry a read from the context
Reads(a) == IF a.counter THEN UndoReads(a.cls) ELSE DoReads(a.cls)

\* counter(c): CounterAction.do is c.undo, CounterAction.undo raises RuntimeError
CounterAction_do_Forward(c, st, ext_ok) == DoOf(c, st, [text |-> "", num |-> None], ext_ok)
CounterAction_do(c, st, ext_ok) == UndoOf(c, st, ext_ok)
CounterAction_undo_Inner(c, st) == UndoOf(c, st, TRUE)
CounterAction_undo(c, st) == Raise(st)

\* one call of do() or undo() on the instance of plan entry a.  fault is what the
\* environment raises inside the call before it has had an effect ("ok": nothing;
\* Ctrl-C or an I/O error otherwise); without one the body decides
Call_do(a, st, fault, inp, ext_ok) ==
    IF fault # "ok" THEN [outcome |-> fault, st |-> st]
    ELSE IF a.counter THEN CounterAction_do(a.cls, st, ext_ok)
    ELSE DoOf(a.cls, st, inp, ext_ok)

Call_undo(a, st, fault, ext_ok) ==
    IF fault # "ok" THEN [outcome |-> fault, st |-> st]
    ELSE IF a.counter THEN CounterAction_undo(a.cls, st)
    ELSE UndoOf(a.cls, st, ext_ok)

(***************************************************************************)
(* The run: main constructs a PlanExecutor and calls it.                   *)
(***************************************************************************)
VARIABLES
    pc,             \* where the run is: "main", "execute_plan", "do_rollback",
                    \* "main_rollback" (do_rollback called by main), "exit"
    command,        \* the subcommand, or "plan" for a plan handed to PlanExecutor
    plan,           \* PlanExecutor.plan
    args,           \* PlanExecutor.args
    context,        \* PlanExecutor.context
    rollback_plan,  \* PlanExecutor.rollback_plan: plan steps, most recent first
    host,           \* the host the actions work on
    i,              \* the step of the loop of execute_plan
    rb,             \* the entry of the loop of do_rollback
    did,            \* the steps begun so far: [step, started, outcome, exit_ok]
    undone,         \* the undo() calls made so far: [step, outcome, exit_ok]
                    \* (exit_ok: the call's external commands exited with status 0)
    trigger,        \* the fault that ended the forward pass, or "none"
    exit_code,      \* the code handed to sys.exit, or None
    stdout,         \* the lines the executor has printed
    pre,            \* the host before the run
    disturbances,   \* the disturbances the environment has caused so far
    typed           \* what input() has returned to a step taken on its own

vars == << pc, command, plan, args, context, rollback_plan, host, i, rb, did,
           undone, trigger, exit_code, stdout, pre, disturbances, typed >>

NoInput == [text |-> "", num |-> None]

\* what the user may type at the prompt of a step (the last value typed)
Typed(a) ==
    IF a.counter THEN {NoInput}
    ELSE CASE a.cls = "SetDesignatedInstanceID" ->
                {NoInput, [text |-> "x", num |-> None]}
                    \cup {[text |-> "digits", num |-> n] : n \in IdSpace}
           [] a.cls = "SelectInstanceID" ->
                {[text |-> "x", num |-> None]}
                    \cup {[text |-> "digits", num |-> n] : n \in IdSpace}
           [] a.cls = "SetDesignatedInstanceName" ->
                {[text |-> "name", num |-> n] : n \in Names}
           [] a.cls = "SetDesignatedExistDBVersion" ->
                {NoInput, [text |-> "4.7.1", num |-> None],
                 [text |-> "latest", num |-> None]}
           [] OTHER -> {NoInput}

\* ---- the hosts and arguments a run may start from ----

Host(dirs, inst, mapping, log, unit, registry) ==
    [instance_dir |-> dirs, installation_dir |-> inst, data_dir |-> inst,
     backup_dir |-> inst, installation_snapshot |-> "none",
     data_snapshot |-> "none", mapping |-> mapping, log_dir |-> log,
     enabled |-> unit, started |-> unit, installer |-> FALSE,
     registry |-> registry]

Registries == {[x \in S |-> x] : S \in SUBSET RegIds}

\* nothing of the designated instance exists; the instance is installed and
\* running; an instance directory, or a mapping and a log folder, are left over
PreHosts ==
    {Host("none", "none", "none", "none", FALSE, r) : r \in Registries}
      \cup {Host("old", "old", "old", "old", TRUE, r) : r \in Registries}
      \cup {Host("old", "none", "none", "none", FALSE, r) : r \in Registries}
      \cup {Host("none", "none", "old", "old", FALSE, r) : r \in Registries}

\* plans other than the shipped ones that a caller may hand to PlanExecutor
PlanAlphabet ==
    {cls("CalculateTargetPaths"), cls("MakeInstanceDirectory"),
     cls("MakeDataDir"), counter("MakeDataDir")}

Plans == UNION {[1..n -> PlanAlphabet] : n \in 1..MaxPlanLen}

InitRun ==
    /\ pc = "main"
    /\ context = [keys |-> {}, instances_settings |-> << >>]
    /\ rollback_plan = << >>
    /\ i = 1
    /\ rb = 1
    /\ did = << >>
    /\ undone = << >>
    /\ trigger = "none"
    /\ exit_code = None
    /\ stdout = << >>
    /\ pre = host
    /\ disturbances = 0
    /\ typed = << >>

\* a plan handed to PlanExecutor with all arguments given, on any host; and the
\* shipped plans: install where nothing of the instance exists, uninstall and
\* upgrade where the instance is installed and registered
Init ==
    /\ \/ /\ command = "plan"
          /\ plan \in Plans
          /\ host \in PreHosts
          /\ args = [id |-> NewId, name |-> NewName, version |-> "4.7.1"]
       \/ /\ command = "install"
          /\ plan = plan_factory(command)
          /\ host \in {h \in PreHosts : h.instance_dir = "none" /\ h.mapping = "none"}
          /\ args \in [id : {None, NewId}, name : {NewName}, version : {"4.7.1"}]
       \/ /\ command \in {"uninstall", "upgrade"}
          /\ plan = plan_factory(command)
          /\ host \in {h \in PreHosts : h.installation_dir = "old"
                                         /\ h.registry # << >>}
          /\ args \in [id : {None} \cup DOMAIN host.registry, name : {None},
                       version : {"None", "4.7.1"}]
    /\ InitRun

\* the install plan from any host and any arguments
InitInstall ==
    /\ command = "install"
    /\ plan = plan_factory(command)
    /\ host \in PreHosts
    /\ args \in [id : {None} \cup IdSpace, name : {None, NewName},
                 version : {"None", "4.7.1"}]
    /\ InitRun

\* ---- main, lines 306-318: the executor is constructed and called ----
Main ==
    /\ pc = "main"
    /\ pc' = "execute_plan"
    /\ UNCHANGED << command, plan, args, context, rollback_plan, host, i, rb, did,
                    undone, trigger, exit_code, stdout, pre, disturbances, typed >>

\* the classes whose do(), and whose undo(), run an external command
CommandInDo ==
    {"RunExistInstaller", "EnableSystemdUnit", "StartSystemdUnit", "ReloadNginx",
     "AddProxyMapping", "SetupLoggingAggregation", "SetFilePermissions",
     "RemoveUnwantedJettyConfig"}
CommandInUndo == {"EnableSystemdUnit", "StartSystemdUnit"}
RunsCommand(a, undo) ==
    IF a.counter THEN ~undo /\ a.cls \in CommandInUndo
    ELSE IF undo THEN a.cls \in CommandInUndo
    ELSE a.cls \in CommandInDo

\* the handlers of execute_plan print and call do_rollback, which prints first
Report(fault) ==
    IF fault = "KeyboardInterrupt"
    THEN << "Process aborted.", "Rolling back changes" >>
    ELSE << "Please report this unhandled exception:", "traceback",
            "Rolling back changes" >>

\* rollback_plan.insert(0, action) unless the instance is an EphemeralAction
Pushed_Append(a, step, stack) == IF IsEphemeral(a) THEN stack ELSE stack \o << step >>
Pushed(a, step, stack) == IF IsEphemeral(a) THEN stack ELSE << step >> \o stack

\* where the handler of execute_plan for fault goes: both handlers call
\* do_rollback, and neither goes back into the loop
OnFault_GoOn(fault) == "execute_plan"
OnFault_CancelSkipsUnwind(fault) ==
    IF fault = "KeyboardInterrupt" THEN "exit" ELSE "do_rollback"
OnFault(fault) == "do_rollback"

\* ---- one round of the loop of execute_plan: action(self), the insert, do() ----
\* ctor: how the constructor ends; fault, inp, ext_ok: see Call_do
ExecuteStep(ctor, fault, inp, ext_ok) ==
    /\ pc = "execute_plan"
    /\ i <= Len(plan)
    /\ ctor # "ok" => fault = "ok"
    /\ ~ext_ok => /\ ctor = "ok" /\ fault = "ok"
                  /\ RunsCommand(plan[i], FALSE)
                  /\ disturbances < MaxDisturbances
    /\ disturbances' = IF ext_ok THEN disturbances ELSE disturbances + 1
    /\ LET a == plan[i]
           r == Call_do(a, [host |-> host, context |-> context, args |-> args],
                        fault, inp, ext_ok)
           outcome == IF ctor # "ok" THEN ctor ELSE r.outcome
       IN /\ did' = Append(did, [step |-> i, started |-> (ctor = "ok"),
                                 outcome |-> outcome, exit_ok |-> ext_ok])
          /\ rollback_plan' = IF ctor # "ok" THEN rollback_plan
                              ELSE Pushed(a, i, rollback_plan)
          /\ host' = IF ctor # "ok" THEN host ELSE r.st.host
          /\ context' = IF ctor # "ok" THEN context ELSE r.st.context
          /\ args' = IF ctor # "ok" THEN args ELSE r.st.args
          /\ IF outcome = "ok"
             THEN /\ i' = i + 1
                  /\ UNCHANGED << pc, trigger, stdout >>
             ELSE /\ trigger' = outcome
                  /\ stdout' = stdout \o Report(outcome)
                  /\ pc' = OnFault(outcome)
                  /\ UNCHANGED i
    /\ UNCHANGED << command, plan, rb, undone, exit_code, pre, typed >>

\* ---- return 0 of execute_plan; main raises SystemExit(0) and exits with it ----
Return_ThenRollback ==
    /\ pc = "execute_plan"
    /\ i > Len(plan)
    /\ pc' = "do_rollback"
    /\ UNCHANGED << command, plan, args, context, rollback_plan, host, i, rb, did,
                    undone, trigger, exit_code, stdout, pre, disturbances, typed >>
Return ==
    /\ pc = "execute_plan"
    /\ i > Len(plan)
    /\ exit_code' = 0
    /\ pc' = "exit"
    /\ UNCHANGED << command, plan, args, context, rollback_plan, host, i, rb, did,
                    undone, trigger, stdout, pre, disturbances, typed >>

\* what the loop of do_rollback prints after an undo() that ended with outcome
Continued(outcome) ==
    IF outcome = "Exception"
    THEN << "Please report this unhandled exception:", "traceback",
            "The rollback is continued anyway." >>
    ELSE << >>

\* the entry do_rollback turns to after an undo() that ended with outcome
NextEntry_StopOnException(entry, outcome, len) ==
    IF outcome = "Exception" THEN len + 1 ELSE entry + 1
NextEntry_StopOnInterrupt(entry, outcome, len) ==
    IF outcome = "KeyboardInterrupt" THEN len + 1 ELSE entry + 1
NextEntry_Retry(entry, outcome, len) == IF outcome = "ok" THEN entry + 1 ELSE entry
NextEntry(entry, outcome, len) == entry + 1

\* ---- one round of the loop of do_rollback: action.undo() and its handlers ----
Undo(fault, ext_ok) ==
    /\ pc \in {"do_rollback", "main_rollback"}
    /\ rb <= Len(rollback_plan)
    /\ ~ext_ok => fault = "ok" /\ RunsCommand(plan[rollback_plan[rb]], TRUE)
    /\ (fault # "ok" \/ ~ext_ok) => disturbances < MaxDisturbances
    /\ disturbances' = IF fault = "ok" /\ ext_ok THEN disturbances
                       ELSE disturbances + 1
    /\ LET step == rollback_plan[rb]
           r == Call_undo(plan[step],
                          [host |-> host, context |-> context, args |-> args],
                          fault, ext_ok)
       IN /\ undone' = Append(undone, [step |-> step, outcome |-> r.outcome,
                                       exit_ok |-> ext_ok])
          /\ host' = r.st.host
          /\ context' = r.st.context
          /\ args' = r.st.args
          /\ stdout' = stdout \o Continued(r.outcome)
          /\ rb' = NextEntry(rb, r.outcome, Len(rollback_plan))
    /\ UNCHANGED << pc, command, plan, rollback_plan, i, did, trigger, exit_code,
                    pre, typed >>

\* the code of the SystemExit raised after do_rollback
ExitCodeOf_Swapped(fault) == IF fault = "KeyboardInterrupt" THEN 3 ELSE 1
ExitCodeOf(fault) == IF fault = "KeyboardInterrupt" THEN 1 ELSE 3

\* ---- do_rollback returns; SystemExit(1) or SystemExit(3) reaches main ----
RolledBack_Early ==
    /\ pc = "do_rollback"
    /\ exit_code' = ExitCodeOf(trigger)
    /\ pc' = "exit"
    /\ UNCHANGED << command, plan, args, context, rollback_plan, host, i, rb, did,
                    undone, trigger, stdout, pre, disturbances, typed >>
RolledBack ==
    /\ pc = "do_rollback"
    /\ rb > Len(rollback_plan)
    /\ exit_code' = ExitCodeOf(trigger)
    /\ pc' = "exit"
    /\ UNCHANGED << command, plan, args, context, rollback_plan, host, i, rb, did,
                    undone, trigger, stdout, pre, disturbances, typed >>

Next ==
    \/ Main
    \/ \E ctor \in Outcomes, fault \in Outcomes, ext_ok \in BOOLEAN :
         \E inp \in Typed(plan[IF i <= Len(plan) THEN i ELSE 1]) :
             ExecuteStep(ctor, fault, inp, ext_ok)
    \/ Return
    \/ \E fault \in Outcomes, ext_ok \in BOOLEAN : Undo(fault, ext_ok)
    \/ RolledBack

Spec == Init /\ [][Next]_vars

SpecInstall == InitInstall /\ [][Next]_vars

\* any plan handed to PlanExecutor, on any host
InitPlan == Init /\ command = "plan"

\* the run of one process: a call that has been made returns or raises, and
\* the interpreter goes on to the next statement
SpecFair == InitPlan /\ [][Next]_vars /\ WF_vars(Next)

(***************************************************************************)
(* The run with Ctrl-C arriving between the calls: a KeyboardInterrupt     *)
(* raised outside the try blocks of execute_plan and do_rollback passes    *)
(* through both and reaches the handler of main.                           *)
(***************************************************************************)
\* exit_code = 1 in the KeyboardInterrupt handler of main
InterruptedExit_AsFault == ExitCodeOf("Exception")
InterruptedExit == 1

\* the status of a process that ends with an exception nothing handles: in
\* main, executor.do_rollback() with executor unbound, and sys.exit(exit_code)
\* in the finally clause with exit_code unbound, raise UnboundLocalError
UnhandledExit == 1

\* ---- Ctrl-C before main has constructed the executor ----
InterruptMain ==
    /\ pc = "main"
    /\ trigger' = "KeyboardInterrupt"
    /\ stdout' = stdout \o << "Received keyboard interrupt, rolling back.",
                              "Traceback" >>
    /\ exit_code' = UnhandledExit
    /\ pc' = "exit"
    /\ UNCHANGED << command, plan, args, context, rollback_plan, host, i, rb, did,
                    undone, pre, disturbances, typed >>

\* ---- Ctrl-C in execute_plan between two rounds of its loop, or in
\* do_rollback outside action.undo(): main prints and calls do_rollback ----
InterruptExecutor ==
    /\ pc \in {"execute_plan", "do_rollback"}
    /\ disturbances < MaxDisturbances
    /\ disturbances' = disturbances + 1
    /\ trigger' = IF trigger = "none" THEN "KeyboardInterrupt" ELSE trigger
    /\ stdout' = stdout \o << "Received keyboard interrupt, rolling back.",
                              "Rolling back changes" >>
    /\ rb' = 1
    /\ pc' = "main_rollback"
    /\ UNCHANGED << command, plan, args, context, rollback_plan, host, i, did,
                    undone, exit_code, pre, typed >>

\* ---- Ctrl-C in the do_rollback that main called, outside action.undo():
\* it leaves the handler of main, and the finally clause raises ----
InterruptMainRollback ==
    /\ pc = "main_rollback"
    /\ disturbances < MaxDisturbances
    /\ disturbances' = disturbances + 1
    /\ stdout' = stdout \o << "Traceback" >>
    /\ exit_code' = UnhandledExit
    /\ pc' = "exit"
    /\ UNCHANGED << command, plan, args, context, rollback_plan, host, i, rb, did,
                    undone, trigger, pre, typed >>

\* ---- the do_rollback that main called returns; exit_code = 1, sys.exit ----
MainRolledBack ==
    /\ pc = "main_rollback"
    /\ rb > Len(rollback_plan)
    /\ exit_code' = InterruptedExit
    /\ pc' = "exit"
    /\ UNCHANGED << command, plan, args, context, rollback_plan, host, i, rb, did,
                    undone, trigger, stdout, pre, disturbances, typed >>

NextAsync ==
    \/ Next
    \/ InterruptMain
    \/ InterruptExecutor
    \/ InterruptMainRollback
    \/ MainRolledBack

\* a plan handed to PlanExecutor, and the uninstall plan run by main
InitAsync == Init /\ command \in {"plan", "uninstall"}

SpecAsync == InitAsync /\ [][NextAsync]_vars

(***************************************************************************)
(* Two runs on one host: an install that completes, then the uninstall of  *)
(* the instance it created.                                                *)
(***************************************************************************)
\* install where nothing of the designated instance exists
InitRoundTrip ==
    /\ command = "install"
    /\ plan = plan_factory(command)
    /\ host \in {Host("none", "none", "none", "none", FALSE, r) : r \in Registries}
    /\ args \in [id : {None, NewId}, name : {NewName}, version : {"4.7.1"}]
    /\ InitRun

\* ---- the install has ended with 0; `uninstall --id <id>` starts: main parses
\* the arguments and constructs a new PlanExecutor on the uninstall plan ----
StartUninstall ==
    /\ pc = "exit"
    /\ command = "install"
    /\ exit_code = 0
    /\ command' = "uninstall"
    /\ plan' = plan_factory("uninstall")
    /\ args' = [id |-> args.id, name |-> None, version |-> "None"]
    /\ context' = [keys |-> {}, instances_settings |-> << >>]
    /\ rollback_plan' = << >>
    /\ i' = 1
    /\ rb' = 1
    /\ did' = << >>
    /\ undone' = << >>
    /\ exit_code' = None
    /\ stdout' = << >>
    /\ pc' = "execute_plan"
    /\ UNCHANGED << host, trigger, pre, disturbances, typed >>

NextRoundTrip ==
    \/ Next
    \/ StartUninstall

SpecRoundTrip == InitRoundTrip /\ [][NextRoundTrip]_vars

(***************************************************************************)
(* One action instance on its own: do() and undo() called on it directly,  *)
(* without an executor loop around them and without a fault from outside.  *)
(***************************************************************************)
\* the Action classes the shipped plans use, plain and wrapped by counter()
CallEntries ==
    {a \in {cls(n) : n \in Action} \cup {counter(n) : n \in Action} :
        \E c \in Commands : \E j \in 1..Len(plan_factory(c)) : plan_factory(c)[j] = a}

\* the context attributes the steps before the first Action of a plan have set
PlanKeys ==
    {"latest_existdb_version", "instances_settings", "instance_dir",
     "installation_dir", "backup_dir", "data_dir", "existdb_config",
     "controller_config", "jetty_config", "installer_location"}

InitCall ==
    /\ command = "call"
    /\ plan \in {<< a >> : a \in CallEntries}
    /\ host \in PreHosts
    /\ args \in [id : IdSpace, name : {NewName}, version : {"4.7.1"}]
    /\ context \in {[keys |-> PlanKeys, instances_settings |-> host.registry],
                    [keys |-> {}, instances_settings |-> << >>]}
    /\ InitRun

\* ---- plan[1](executor).do(), as the first call on the instance ----
CallDo(ext_ok) ==
    /\ command = "call"
    /\ did = << >> /\ undone = << >>
    /\ ~ext_ok => RunsCommand(plan[1], FALSE)
    /\ LET r == Call_do(plan[1], [host |-> host, context |-> context, args |-> args],
                        "ok", NoInput, ext_ok)
       IN /\ did' = << [step |-> 1, started |-> TRUE, outcome |-> r.outcome,
                         exit_ok |-> ext_ok] >>
          /\ host' = r.st.host
          /\ context' = r.st.context
          /\ args' = r.st.args
    /\ UNCHANGED << pc, command, plan, rollback_plan, i, rb, undone, trigger,
                    exit_code, stdout, pre, disturbances, typed >>

\* ---- plan[1](executor).undo(), once, after do() or without it ----
CallUndo(ext_ok) ==
    /\ command = "call"
    /\ undone = << >>
    /\ ~ext_ok => RunsCommand(plan[1], TRUE)
    /\ LET r == Call_undo(plan[1], [host |-> host, context |-> context, args |-> args],
                          "ok", ext_ok)
       IN /\ undone' = << [step |-> 1, outcome |-> r.outcome, exit_ok |-> ext_ok] >>
          /\ host' = r.st.host
          /\ context' = r.st.context
          /\ args' = r.st.args
    /\ UNCHANGED << pc, command, plan, rollback_plan, i, rb, did, trigger,
                    exit_code, stdout, pre, disturbances, typed >>

NextCall ==
    \/ \E ext_ok \in BOOLEAN : CallDo(ext_ok)
    \/ \E ext_ok \in BOOLEAN : CallUndo(ext_ok)

SpecCall == InitCall /\ [][NextCall]_vars

(***************************************************************************)
(* One validation step on its own: the while loop of its do(), one value   *)
(* read by input() per round.                                              *)
(***************************************************************************)
ValidationSteps ==
    {"SelectInstanceID", "SetDesignatedExistDBVersion", "SetDesignatedInstanceID",
     "SetDesignatedInstanceName"}

\* the condition of the while loop of class c
Prompting(c, st) ==
    LET settings == st.context.instances_settings IN
    CASE c = "SelectInstanceID" ->
            st.args.id = None \/ st.args.id \notin DOMAIN settings
      [] c = "SetDesignatedExistDBVersion" ->
            st.args.version = "None" \/ ~is_semantical_version(st.args.version)
      [] c = "SetDesignatedInstanceID" ->
            st.args.id = None \/ st.args.id \in DOMAIN settings
      [] c = "SetDesignatedInstanceName" ->
            st.args.name = None \/ st.args.name \in used_names(settings)
                \/ st.args.name \notin Names

\* int(value) in SelectInstanceID.do is inside try/except ValueError
Round_SelectInstanceID(st, inp) ==
    IF inp.text = "digits" THEN Ok([st EXCEPT !.args.id = inp.num])
    ELSE Ok([st EXCEPT !.args.id = None])

\* a value that is no version leaves args.version as it is
Round_SetDesignatedExistDBVersion(st, inp) ==
    IF inp.text = "" THEN Ok([st EXCEPT !.args.version = "5.0.0"])
    ELSE IF is_semantical_version(inp.text)
         THEN Ok([st EXCEPT !.args.version = inp.text])
    ELSE Ok(st)

\* `value in instances_settings` compares the str typed with the int keys and
\* the proposed id with ids below it, so it is never true; int(value) is not
\* inside a try and raises ValueError for text that is no number
Round_SetDesignatedInstanceID(st, inp) ==
    IF inp.text = "" THEN Ok([st EXCEPT !.args.id = proposed_id(st.context.instances_settings)])
    ELSE IF inp.text = "digits" THEN Ok([st EXCEPT !.args.id = inp.num])
    ELSE Raise(st)

\* a name in use and a value that does not match the pattern print a line
Round_SetDesignatedInstanceName(st, inp) ==
    IF inp.text = "name" /\ inp.num \notin used_names(st.context.instances_settings)
    THEN Ok([st EXCEPT !.args.name = inp.num])
    ELSE Ok(st)

\* the body of the while loop of class c after input() has returned inp
Round(c, st, inp) ==
    CASE c = "SelectInstanceID" -> Round_SelectInstanceID(st, inp)
      [] c = "SetDesignatedExistDBVersion" -> Round_SetDesignatedExistDBVersion(st, inp)
      [] c = "SetDesignatedInstanceID" -> Round_SetDesignatedInstanceID(st, inp)
      [] c = "SetDesignatedInstanceName" -> Round_SetDesignatedInstanceName(st, inp)

\* what the user may type at the prompt of class c: an empty line, text that is
\* no number, no name and no version, and the numbers, names and versions
PromptValues(c) ==
    {NoInput, [text |-> "x", num |-> None]} \cup
    CASE c \in {"SelectInstanceID", "SetDesignatedInstanceID"} ->
            {[text |-> "digits", num |-> n] : n \in IdSpace}
      [] c = "SetDesignatedInstanceName" ->
            {[text |-> "name", num |-> n] : n \in Names}
      [] c = "SetDesignatedExistDBVersion" ->
            {[text |-> v, num |-> None] : v \in Versions}

\* the end of the input: input() raises EOFError
Eof == [text |-> "EOF", num |-> None]

\* the step is constructed after the steps before it in its plan have run; the
\* arguments are the ones of the command line, given or not, valid or not
InitPrompt ==
    /\ command = "prompt"
    /\ plan \in {<< cls(c) >> : c \in ValidationSteps}
    /\ host \in {Host("none", "none", "none", "none", FALSE, r) : r \in Registries}
    /\ args \in [id : {None} \cup IdSpace, name : {None} \cup Names,
                 version : {"None", "4.7.1", "latest"}]
    /\ context = [keys |-> PlanKeys, instances_settings |-> host.registry]
    /\ pc = "do"
    /\ rollback_plan = << >>
    /\ i = 1
    /\ rb = 1
    /\ did = << >>
    /\ undone = << >>
    /\ trigger = "none"
    /\ exit_code = None
    /\ stdout = << >>
    /\ pre = host
    /\ disturbances = 0
    /\ typed = << >>

\* ---- one round of the while loop: input() returns inp, the body handles it ----
\* accepted: the loop ends with this value
Prompt(inp) ==
    /\ command = "prompt"
    /\ pc = "do"
    /\ Prompting(plan[1].cls, [host |-> host, context |-> context, args |-> args])
    /\ Len(typed) < MaxPrompts
    /\ LET c == plan[1].cls
           r == Round(c, [host |-> host, context |-> context, args |-> args], inp)
       IN /\ args' = r.st.args
          /\ typed' = Append(typed, [inp |-> inp,
                                     accepted |-> r.outcome = "ok"
                                                   /\ ~Prompting(c, r.st)])
          /\ pc' = IF r.outcome = "ok" THEN "do" ELSE "raised"
          /\ trigger' = IF r.outcome = "ok" THEN trigger ELSE r.outcome
    /\ UNCHANGED << command, plan, context, rollback_plan, host, i, rb, did,
                    undone, exit_code, stdout, pre, disturbances >>

\* ---- input() raises EOFError, which nothing in do() catches ----
PromptEof ==
    /\ command = "prompt"
    /\ pc = "do"
    /\ Prompting(plan[1].cls, [host |-> host, context |-> context, args |-> args])
    /\ typed' = Append(typed, [inp |-> Eof, accepted |-> FALSE])
    /\ pc' = "raised"
    /\ trigger' = "Exception"
    /\ UNCHANGED << command, plan, args, context, rollback_plan, host, i, rb, did,
                    undone, exit_code, stdout, pre, disturbances >>

\* ---- the condition of the while loop is false: do() returns ----
PromptReturn ==
    /\ command = "prompt"
    /\ pc = "do"
    /\ ~Prompting(plan[1].cls, [host |-> host, context |-> context, args |-> args])
    /\ pc' = "returned"
    /\ UNCHANGED << command, plan, args, context, rollback_plan, host, i, rb, did,
                    undone, trigger, exit_code, stdout, pre, disturbances, typed >>

NextPrompt ==
    \/ \E inp \in PromptValues(plan[1].cls) : Prompt(inp)
    \/ PromptEof
    \/ PromptReturn

SpecPrompt == InitPrompt /\ [][NextPrompt]_vars

(***************************************************************************)
(* Properties.                                                             *)
(***************************************************************************)
Range(q) == {q[j] : j \in 1..Len(q)}
UndoneSteps == [j \in 1..Len(undone) |-> undone[j].step]
Durable(step) == plan[step].counter \/ plan[step].cls \in Action

\* the steps 1..n that are not Ephemeral, the latest first
RECURSIVE DurableDesc(_)
DurableDesc(n) ==
    IF n = 0 THEN << >>
    ELSE (IF Durable(n) THEN << n >> ELSE << >>) \o DurableDesc(n - 1)

\* the run has ended after a fault at step i
Unwound == pc = "exit" /\ trigger # "none"

\* C1: after a fault at step k the undo() calls on steps below k are exactly the
\* non-Ephemeral steps 1..k-1, each once, latest first, and no step above k
\* receives undo()
C1_ReverseUnwind ==
    Unwound =>
        /\ SelectSeq(UndoneSteps, LAMBDA x : x < i) = DurableDesc(i - 1)
        /\ \A x \in Range(UndoneSteps) : x <= i

C1_Witness ==
    /\ Unwound
    /\ did[Len(did)].started
    /\ Len(DurableDesc(i - 1)) >= 2
    /\ \E x \in 1..(i - 1) : ~Durable(x)
    /\ i < Len(plan)

\* C2: every entry of the rollback stack, and every step that receives undo(),
\* is a non-Ephemeral step whose do() has completed successfully
C2_OnlyCompletedOnStack ==
    \A x \in Range(rollback_plan) \cup Range(UndoneSteps) :
        /\ Durable(x)
        /\ \E d \in Range(did) : d.step = x /\ d.outcome = "ok"

\* the part of the host C3 lists
HostView(h) ==
    [instance_dir |-> h.instance_dir, data_dir |-> h.data_dir,
     backup_dir |-> h.backup_dir, installation_dir |-> h.installation_dir,
     mapping |-> h.mapping, log_dir |-> h.log_dir, registry |-> h.registry,
     enabled |-> h.enabled, started |-> h.started]

\* C3: when a step of the install plan faults and every undo() of the unwind
\* succeeds, the host after the run is the host before the run
C3_InstallRestored ==
    (Unwound /\ command = "install" /\ \A u \in Range(undone) : u.outcome = "ok")
        => HostView(host) = HostView(pre)

\* the unwind has reached entry Len(undone) + 1 and, once the run has ended, has
\* called undo() on every entry of the rollback stack, in its order
UnwindComplete ==
    /\ pc \in {"do_rollback", "exit"}
    /\ rb = Len(undone) + 1
    /\ \A j \in 1..Len(undone) : undone[j].step = rollback_plan[j]
    /\ pc = "exit" => Len(undone) = Len(rollback_plan)

\* C4: an Exception raised by an undo() is reported, the unwind goes on to every
\* older entry, and the run still ends with the code of the triggering fault
C4_UnwindContinuesAfterException ==
    (\E j \in 1..Len(undone) : undone[j].outcome = "Exception") =>
        /\ UnwindComplete
        /\ "The rollback is continued anyway." \in Range(stdout)
        /\ pc = "exit" => exit_code = (IF trigger = "KeyboardInterrupt" THEN 1 ELSE 3)

C4_Witness ==
    /\ pc = "exit"
    /\ \E j \in 1..Len(undone) :
         /\ undone[j].outcome = "Exception"
         /\ j < Len(undone)
         /\ undone[j + 1].outcome = "ok"

\* C5: in no run of the uninstall plan or of the upgrade plan does an action
\* made by counter() receive undo()
C5_CounterNeverUndone ==
    command \in {"uninstall", "upgrade"} =>
        \A x \in Range(UndoneSteps) : ~plan[x].counter

\* C6: no Ephemeral action is on the rollback stack or receives undo()
C6_EphemeralNeverUndone ==
    \A x \in Range(rollback_plan) \cup Range(UndoneSteps) :
        plan[x].counter \/ plan[x].cls \notin EphemeralAction

C6_Witness ==
    /\ Unwound
    /\ did[Len(did)].started
    /\ ~plan[i].counter /\ plan[i].cls \in EphemeralAction
    /\ Len(undone) >= 1

C8_ExitAfterUnwind ==
    (trigger # "none" /\ exit_code # None) =>
        /\ Len(undone) = Len(rollback_plan)
        /\ \A j \in 1..Len(undone) : undone[j].step = rollback_plan[j]
        /\ exit_code = (IF trigger = "KeyboardInterrupt" THEN 1 ELSE 3)

C8_Witness ==
    /\ Unwound
    /\ exit_code = 3
    /\ \E j, m \in 1..Len(undone) :
         undone[j].outcome = "Exception" /\ undone[m].outcome = "KeyboardInterrupt"

\* C9: a KeyboardInterrupt raised inside an undo() ends that call only; the
\* unwind goes on to every older entry
C9_UnwindContinuesAfterInterrupt ==
    (\E j \in 1..Len(undone) : undone[j].outcome = "KeyboardInterrupt") =>
        UnwindComplete

C9_Witness ==
    /\ pc = "exit"
    /\ \E j \in 1..Len(undone) :
         /\ undone[j].outcome = "KeyboardInterrupt"
         /\ j < Len(undone)
         /\ undone[j + 1].outcome = "ok"

\* the outcome an operator can tell from the exit code and the printed lines
Surfaced ==
    IF exit_code = 0 THEN "Completed"
    ELSE IF "The rollback is continued anyway." \in Range(stdout)
         THEN "RolledBack-with-residue"
    ELSE "RolledBack-clean"

\* C10: a run is surfaced as Completed, RolledBack-clean or RolledBack-with-residue,
\* and as RolledBack-with-residue whenever an undo() of the unwind did not
\* complete successfully
C10_ResidueReported ==
    pc = "exit" =>
        /\ Surfaced = "Completed" <=> trigger = "none"
        /\ Surfaced = "RolledBack-with-residue" <=>
             \E u \in Range(undone) : u.outcome # "ok"

\* C11: for an Action of the shipped plans, one undo() after a do() that succeeded
\* leaves the directories, the registry and the unit as they were before the do()
C11_UndoRestores ==
    (/\ command = "call" /\ ~plan[1].counter
     /\ Len(did) = 1 /\ did[1].outcome = "ok" /\ Len(undone) = 1)
        => HostView(host) = HostView(pre)

\* C12: a do() or undo() whose external command exits with a status other than 0
\* raises a fault, and such a do() ends the run with exit code 3
C12_NonZeroExitFaults ==
    /\ \A d \in Range(did) :
          (d.started /\ ~d.exit_ok) =>
              /\ d.outcome = "Exception"
              /\ pc = "exit" => exit_code = 3
    /\ \A u \in Range(undone) : ~u.exit_ok => u.outcome = "Exception"

\* C13: once the constructor or the do() of a step has faulted or was cancelled,
\* no later step is instantiated or done: the steps begun are 1, 2, ... in
\* order, and a step that did not succeed is the last one begun, during the
\* rollback and after it
C13_ForwardStops ==
    /\ \A j \in 1..Len(did) :
          /\ did[j].step = j
          /\ did[j].outcome # "ok" => j = Len(did)
    /\ trigger # "none" => (Len(did) = i /\ did[i].outcome = trigger)

C13_Witness ==
    /\ Unwound
    /\ trigger = "KeyboardInterrupt"
    /\ did[Len(did)].started
    /\ i < Len(plan)
    /\ Len(undone) >= 2

\* C14: the unwind after a fault at step k is a function of the plan and of k
\* alone: undo() is called on the non-Ephemeral steps instantiated up to k, the
\* latest first, whether the fault was a cancellation or another fault; the
\* two differ in the first line printed and in the exit code (1 and 3)
C14_SameUnwind ==
    Unwound =>
        /\ UndoneSteps = DurableDesc(IF did[i].started THEN i ELSE i - 1)
        /\ stdout[1] = (IF trigger = "KeyboardInterrupt" THEN "Process aborted."
                        ELSE "Please report this unhandled exception:")
        /\ exit_code = (IF trigger = "KeyboardInterrupt" THEN 1 ELSE 3)

C14_Witness ==
    /\ Unwound
    /\ command = "upgrade"
    /\ trigger = "KeyboardInterrupt"
    /\ exit_code = 1
    /\ Len(undone) >= 3

\* C15: the do() of an instance of counter(X) ends as X.undo() ends when called
\* on the same host, context and arguments, and leaves the same host, context
\* and arguments behind
C15_CounterDoIsUndo ==
    [][(command = "call" /\ plan[1].counter /\ did = << >> /\ did' # << >>) =>
          LET r == UndoOf(plan[1].cls,
                          [host |-> host, context |-> context, args |-> args],
                          did'[1].exit_ok)
          IN /\ did'[1].outcome = r.outcome
             /\ host' = r.st.host
             /\ context' = r.st.context
             /\ args' = r.st.args]_vars

C15_Witness ==
    /\ command = "call" /\ plan[1].counter
    /\ Len(did) = 1 /\ did[1].outcome = "ok" /\ undone = << >>
    /\ HostView(host) # HostView(pre)

\* C16: undo() of an instance of counter(X) raises and changes nothing, on the
\* host, in the context or in the arguments, with or without a do() before it
C16_CounterUndoRaises ==
    [][(command = "call" /\ plan[1].counter /\ undone = << >> /\ undone' # << >>) =>
          /\ undone'[1].outcome = "Exception"
          /\ host' = host
          /\ context' = context
          /\ args' = args]_vars

C16_Witness ==
    /\ command = "call" /\ plan[1].counter
    /\ Len(did) = 1 /\ did[1].outcome = "ok" /\ Len(undone) = 1
    /\ HostView(host) # HostView(pre)

\* C17: in the shipped plans every context attribute a step reads was set by
\* an earlier step of the run, and no step of any run removes an attribute
C17_KeysSetBeforeRead ==
    [][/\ context.keys \subseteq context'.keys
       /\ (command \in Commands /\ Len(did') = Len(did) + 1) =>
              Reads(plan[i]) \subseteq context.keys]_vars

C17_Witness ==
    /\ command = "upgrade"
    /\ Len(did) >= 17
    /\ did[17].outcome = "ok"
    /\ {"data_snapshot", "retained_configs", "installer_location"}
           \subseteq context.keys

\* C18: while every do() so far has succeeded no undo() has been called; a run
\* in which every do() succeeded ends with exit code 0 and with its effects in
\* place: after an install the registry holds the entries it held before the
\* run and the entry of the new instance, and the directories, the mapping and
\* the log folder of the instance exist; after an uninstall they are gone
C18_CompletedKeepsEffects ==
    /\ trigger = "none" => undone = << >>
    /\ (pc = "exit" /\ trigger = "none") =>
          /\ exit_code = 0
          /\ Len(did) = Len(plan)
          /\ command = "install" =>
                /\ args.id \notin DOMAIN pre.registry
                /\ host.registry = Put(pre.registry, args.id, args.name)
                /\ host.instance_dir = "new" /\ host.data_dir = "new"
                /\ host.backup_dir = "new"
                /\ host.mapping = "new" /\ host.log_dir = "new"
          /\ command = "uninstall" =>
                /\ args.id \in DOMAIN pre.registry
                /\ host.registry = Pop(pre.registry, args.id)
                /\ host.instance_dir = "none"
                /\ host.mapping = "none" /\ host.log_dir = "none"

C18_Witness ==
    /\ pc = "exit" /\ exit_code = 0
    /\ command = "install"
    /\ pre.registry # << >>
    /\ DOMAIN host.registry = DOMAIN pre.registry \cup {args.id}
    /\ host.registry # pre.registry

\* C19: no value typed at the prompt of a validation step makes its do() raise:
\* the do() raises only when the input has ended
C19_InvalidValueReprompts ==
    (command = "prompt" /\ pc = "raised") => typed[Len(typed)].inp = Eof

\* C20: a validation step that was handed a value it does not accept rejects
\* there and then: it does not go back to the prompt for another value
C20_RejectsFirstInvalid ==
    command = "prompt" =>
        \A j \in 1..Len(typed) : ~typed[j].accepted => (j = Len(typed) /\ pc = "raised")

\* C21: no action instance receives undo() more than once in a run, also when
\* a Ctrl-C arrives outside an undo() call and is handled by main
C21_UndoAtMostOnce ==
    \A j, k \in 1..Len(undone) : undone[j].step = undone[k].step => j = k

\* the step of the run's plan that is the plain action of class name
StepOf(name) == CHOOSE j \in 1..Len(plan) : plan[j] = cls(name)

\* C22: when a step of the upgrade plan after MakeSnapshot faults, then after
\* the unwind the installation folder and the data folder are back with the
\* content they had before the run, and the unit is started as before the run
C22_UpgradeRestored ==
    (/\ command = "upgrade" /\ Unwound /\ i > StepOf("MakeSnapshot")
     /\ disturbances = 0)
        => /\ host.installation_dir = "old"
           /\ host.data_dir = "old"
           /\ host.started = pre.started

\* C23: an uninstall that completes, of an instance a completed install made,
\* leaves the host as it was before the install: the unit stopped and disabled,
\* the registry entry, the mapping, the instance directory with its folders and
\* the log folder gone, the other registry entries as they were
C23_UninstallInvertsInstall ==
    (command = "uninstall" /\ pc = "exit" /\ exit_code = 0)
        => HostView(host) = HostView(pre)

\* C24: a run ends, and ends with one exit code that stays; it begins every plan
\* step at most once and calls undo() at most once per entry of the rollback
\* stack, which has at most one entry per plan step
C24_Terminates ==
    /\ <>(pc = "exit")
    /\ [](/\ Len(did) <= Len(plan)
          /\ \A j, k \in 1..Len(did) : did[j].step = did[k].step => j = k
          /\ Len(undone) <= Len(rollback_plan)
          /\ Len(rollback_plan) <= Len(plan)
          /\ pc = "exit" <=> exit_code # None)
    /\ [][exit_code # None => exit_code' = exit_code]_vars

C24_Witness ==
    /\ pc = "exit"
    /\ command = "plan"
    /\ Len(plan) = MaxPlanLen
    /\ Len(undone) >= 2
    /\ \A u \in Range(undone) : u.outcome # "ok"

\* C25: a run in which a KeyboardInterrupt reached main, before the executor
\* was constructed, during the forward pass or during the rollback, ends with
\* exit code 1
C25_InterruptExitsOne ==
    (pc = "exit" /\ "Received keyboard interrupt, rolling back." \in Range(stdout))
        => exit_code = 1

C25_Witness ==
    /\ pc = "exit"
    /\ "Received keyboard interrupt, rolling back." \in Range(stdout)
    /\ "Traceback" \notin Range(stdout)
    /\ trigger = "Exception"
    /\ Len(undone) > Len(rollback_plan)

====
